---- MODULE Spec2Model ----
(* BIP39 mnemonic generator (main.py) and validator (bip39_validator.py).      *)
(* Python integers are unbounded; they are modelled as bit sequences, least    *)
(* significant bit first, without leading zero bits, because every entropy     *)
(* value is wider than the integers of the model checker.                      *)
EXTENDS Integers, Sequences, FiniteSets, TLC

VARIABLES
  english_txt,    \* the lines of the wordlist file the constructors read
  constructed,    \* which of the two objects have been constructed
  gen_wordlist,   \* BIP39Generator.wordlist
  val_wordlist,   \* BIP39Validator.wordlist
  wordset,        \* BIP39Validator.wordset
  op,             \* the call that ended last
  raised,         \* the exception that left it ("none": it returned)
  entropy_len,    \* bit length of the entropy the caller holds (0: none)
  entropy_bits,   \* the entropy handed to bits_to_mnemonic
  gen,            \* bits_to_mnemonic: its locals and what it returned
  mnemonic,       \* the string handed to validate_mnemonic / get_mnemonic_info
  base_words,     \* the valid mnemonic whose last word the caller replaced
  val_ret,        \* the boolean validate_mnemonic returned
  results,        \* the dictionary validate_mnemonic returned
  calls,          \* the stage functions validate_mnemonic called, in order
  chk,            \* validate_checksum: its locals
  info,           \* what get_mnemonic_info returned
  call_args,      \* the arguments of a call made on one method alone
  call_ret        \* what that call computed and returned

vars == <<english_txt, constructed, gen_wordlist, val_wordlist, wordset, op,
          raised, entropy_len, entropy_bits, gen, mnemonic, base_words,
          val_ret, results, calls, chk, info, call_args, call_ret>>

(* ---------------------------------------------------------------- *)
(* Bounds of the model.                                              *)
(* ---------------------------------------------------------------- *)
\* Entropy values whose checksum is computed alone: seeds 0..MaxChecksumSeed.
MaxChecksumSeed == 11

\* Neighbourhoods tried around a packed index: 0..MaxStep.
MaxStep == 2

\* Entropy values tried per length: seed 0 is all-zero, 1 is all-one.
MaxSeed == 3

\* Last-word replacements tried on a valid mnemonic: indices 0..MaxReplIdx.
MaxReplIdx == 24

\* Word counts tried: 0..MaxWords.
MaxWords == 25

(* ---------------------------------------------------------------- *)
(* Python values.                                                    *)
(* ---------------------------------------------------------------- *)
None == <<>>

Pow2(n) == 2 ^ n

Bits == {0, 1}

\* The sequence with the elements of f, each evaluated once.
List(f) == f \o <<>>

Reverse(s) == List([i \in 1..Len(s) |-> s[Len(s) + 1 - i]])

Zeros(n) == List([i \in 1..n |-> 0])

\* The integer with the given bits (least significant first): leading zero
\* bits carry no value.
Norm(b) ==
  LET top == CHOOSE i \in 0..Len(b) :
               /\ (i = 0 \/ b[i] = 1)
               /\ \A j \in (i + 1)..Len(b) : b[j] = 0
  IN  SubSeq(b, 1, top)

BitAt(x, i) == IF i <= Len(x) THEN x[i] ELSE 0

\* x << n
ShiftLeft(x, n) == IF x = <<>> THEN <<>> ELSE Zeros(n) \o x

\* x >> n
ShiftRight(x, n) == SubSeq(x, n + 1, Len(x))

\* x | y
BitOr(x, y) ==
  LET n == IF Len(x) >= Len(y) THEN Len(x) ELSE Len(y)
  IN  List([i \in 1..n |-> IF BitAt(x, i) = 1 \/ BitAt(y, i) = 1 THEN 1 ELSE 0])

\* x & y
BitAnd(x, y) ==
  LET n == IF Len(x) <= Len(y) THEN Len(x) ELSE Len(y)
  IN  Norm(List([i \in 1..n |-> x[i] * y[i]]))

\* (1 << n) - 1
Mask(n) == List([i \in 1..n |-> 1])

\* The Python int of a number of the model (below 2^30).
FromSmall(n) == Norm(List([i \in 1..30 |-> (n \div Pow2(i - 1)) % 2]))

\* The number of a Python int below 2^11.
ToSmall(x) ==
  BitAt(x, 1) + 2 * BitAt(x, 2) + 4 * BitAt(x, 3) + 8 * BitAt(x, 4)
  + 16 * BitAt(x, 5) + 32 * BitAt(x, 6) + 64 * BitAt(x, 7)
  + 128 * BitAt(x, 8) + 256 * BitAt(x, 9) + 512 * BitAt(x, 10)
  + 1024 * BitAt(x, 11)

\* int(s, 2) of a string of binary digits, most significant first.
FromBinary(s) == Norm(Reverse(s))

\* f"{x:0{width}b}": the binary digits, most significant first, zero-padded
\* to at least width digits.
FormatBinary(x, width) ==
  LET n == IF Len(x) >= width THEN Len(x) ELSE width
  IN  List([i \in 1..n |-> BitAt(x, n + 1 - i)])

\* f"{x:0{width}x}": the hexadecimal digits, as numbers 0..15.
FormatHex(x, width) ==
  LET d == (Len(x) + 3) \div 4
      n == IF d >= width THEN d ELSE width
  IN  List([i \in 1..n |->
              LET k == 4 * (n - i)
              IN  BitAt(x, k + 1) + 2 * BitAt(x, k + 2)
                  + 4 * BitAt(x, k + 3) + 8 * BitAt(x, k + 4)])

\* x.to_bytes(length, byteorder='big'); an int that does not fit raises
\* OverflowError.
Fits(x, length) == Len(x) <= 8 * length

ToBytes(x, length) ==
  List([i \in 1..length |->
          LET k == 8 * (length - i)
          IN  BitAt(x, k + 1) + 2 * BitAt(x, k + 2) + 4 * BitAt(x, k + 3)
              + 8 * BitAt(x, k + 4) + 16 * BitAt(x, k + 5)
              + 32 * BitAt(x, k + 6) + 64 * BitAt(x, k + 7)
              + 128 * BitAt(x, k + 8)])

(* ---------------------------------------------------------------- *)
(* hashlib.sha256 on a single 64-byte block. A 32-bit word is the    *)
(* pair <<hi, lo>> of its 16-bit halves.                             *)
(* ---------------------------------------------------------------- *)
RECURSIVE NibXor(_, _, _)
NibXor(a, b, n) ==
  IF n = 0 THEN 0
  ELSE (((a % 2) + (b % 2)) % 2) + 2 * NibXor(a \div 2, b \div 2, n - 1)

RECURSIVE NibAnd(_, _, _)
NibAnd(a, b, n) ==
  IF n = 0 THEN 0
  ELSE ((a % 2) * (b % 2)) + 2 * NibAnd(a \div 2, b \div 2, n - 1)

XorTable == [i \in 0..255 |-> NibXor(i \div 16, i % 16, 4)]

AndTable == [i \in 0..255 |-> NibAnd(i \div 16, i % 16, 4)]

Xor16(a, b) ==
    XorTable[(a % 16) * 16 + (b % 16)]
  + 16 * XorTable[((a \div 16) % 16) * 16 + ((b \div 16) % 16)]
  + 256 * XorTable[((a \div 256) % 16) * 16 + ((b \div 256) % 16)]
  + 4096 * XorTable[(a \div 4096) * 16 + (b \div 4096)]

And16(a, b) ==
    AndTable[(a % 16) * 16 + (b % 16)]
  + 16 * AndTable[((a \div 16) % 16) * 16 + ((b \div 16) % 16)]
  + 256 * AndTable[((a \div 256) % 16) * 16 + ((b \div 256) % 16)]
  + 4096 * AndTable[(a \div 4096) * 16 + (b \div 4096)]

Xor32(x, y) == <<Xor16(x[1], y[1]), Xor16(x[2], y[2])>>

And32(x, y) == <<And16(x[1], y[1]), And16(x[2], y[2])>>

Not32(x) == <<65535 - x[1], 65535 - x[2]>>

Add32(x, y) ==
  LET lo == x[2] + y[2]
      hi == x[1] + y[1] + (lo \div 65536)
  IN  <<hi % 65536, lo % 65536>>

RotR(x, n) ==
  LET h == IF n >= 16 THEN x[2] ELSE x[1]
      l == IF n >= 16 THEN x[1] ELSE x[2]
      m == n % 16
      p == Pow2(m)
      q == Pow2(16 - m)
  IN  <<(h \div p) + (l % p) * q, (l \div p) + (h % p) * q>>

ShR(x, n) ==
  LET p == Pow2(n)
      q == Pow2(16 - n)
  IN  <<x[1] \div p, (x[2] \div p) + (x[1] % p) * q>>

BigSigma0(x) == Xor32(Xor32(RotR(x, 2), RotR(x, 13)), RotR(x, 22))

BigSigma1(x) == Xor32(Xor32(RotR(x, 6), RotR(x, 11)), RotR(x, 25))

SmallSigma0(x) == Xor32(Xor32(RotR(x, 7), RotR(x, 18)), ShR(x, 3))

SmallSigma1(x) == Xor32(Xor32(RotR(x, 17), RotR(x, 19)), ShR(x, 10))

Ch(x, y, z) == Xor32(And32(x, y), And32(Not32(x), z))

Maj(x, y, z) == Xor32(Xor32(And32(x, y), And32(x, z)), And32(y, z))

K ==
  << <<17034, 12184>>, <<28983, 17553>>, <<46528, 64463>>, <<59829, 56229>>,
     <<14678, 49755>>, <<23025, 4593>>, <<37439, 33444>>, <<43804, 24277>>,
     <<55303, 43672>>, <<4739, 23297>>, <<9265, 34238>>, <<21772, 32195>>,
     <<29374, 23924>>, <<32990, 45566>>, <<39900, 1703>>, <<49563, 61812>>,
     <<58523, 27073>>, <<61374, 18310>>, <<4033, 40390>>, <<9228, 41420>>,
     <<11753, 11375>>, <<19060, 33962>>, <<23728, 43484>>, <<30457, 35034>>,
     <<38974, 20818>>, <<43057, 50797>>, <<45059, 10184>>, <<48985, 32711>>,
     <<50912, 3059>>, <<54695, 37191>>, <<1738, 25425>>, <<5161, 10599>>,
     <<10167, 2693>>, <<11803, 8504>>, <<19756, 28156>>, <<21304, 3347>>,
     <<25866, 29524>>, <<30314, 2747>>, <<33218, 51502>>, <<37490, 11397>>,
     <<41663, 59553>>, <<43034, 26187>>, <<49739, 35696>>, <<51052, 20899>>,
     <<53650, 59417>>, <<54937, 1572>>, <<62478, 13701>>, <<4202, 41072>>,
     <<6564, 49430>>, <<7735, 27656>>, <<10056, 30540>>, <<13488, 48309>>,
     <<14620, 3251>>, <<20184, 43594>>, <<23452, 51791>>, <<26670, 28659>>,
     <<29839, 33518>>, <<30885, 25455>>, <<33992, 30740>>, <<36039, 520>>,
     <<37054, 65530>>, <<42064, 27883>>, <<48889, 41975>>, <<50801, 30962>> >>

H0 ==
  << <<27145, 58983>>, <<47975, 44677>>, <<15470, 62322>>, <<42319, 62778>>,
     <<20750, 21119>>, <<39685, 26764>>, <<8067, 55723>>, <<23520, 52505>> >>

\* The padded block of a message of at most 55 bytes: message, 0x80, zeros,
\* and the bit length in the last eight bytes.
PadBlock(bytes) ==
  LET n == Len(bytes)
  IN  List([i \in 1..64 |->
              IF i <= n THEN bytes[i]
              ELSE IF i = n + 1 THEN 128
              ELSE IF i = 63 THEN (8 * n) \div 256
              ELSE IF i = 64 THEN (8 * n) % 256
              ELSE 0])

BlockWords(blk) ==
  List([t \in 1..16 |-> <<blk[4 * t - 3] * 256 + blk[4 * t - 2],
                          blk[4 * t - 1] * 256 + blk[4 * t]>>])

\* One more word of the message schedule.
NextWord(w) ==
  LET t == Len(w) + 1
  IN  Append(w, Add32(Add32(SmallSigma1(w[t - 2]), w[t - 7]),
                      Add32(SmallSigma0(w[t - 15]), w[t - 16])))

\* n more words of the message schedule, one after the other. (The first
\* half is evaluated before the second is started.)
RECURSIVE NextWords(_, _)
NextWords(w, n) ==
  IF n = 1 THEN NextWord(w)
  ELSE LET half == NextWords(w, n \div 2)
       IN  IF Len(half) > 0 THEN NextWords(half, n - (n \div 2)) ELSE w

\* The 64 words of the message schedule of a block of 16 words.
Schedule(w16) == NextWords(w16, 48)

Round(s, w, t) ==
  LET t1 == Add32(Add32(Add32(s[8], BigSigma1(s[5])),
                        Add32(Ch(s[5], s[6], s[7]), K[t])), w[t])
      t2 == Add32(BigSigma0(s[1]), Maj(s[1], s[2], s[3]))
  IN  <<Add32(t1, t2), s[1], s[2], s[3], Add32(s[4], t1), s[5], s[6], s[7]>>

\* Rounds t..t+n-1 of the compression function, one after the other. (The
\* first half is evaluated before the second is started.)
RECURSIVE RoundsFrom(_, _, _, _)
RoundsFrom(s, w, t, n) ==
  IF n = 1 THEN Round(s, w, t)
  ELSE LET half == RoundsFrom(s, w, t, n \div 2)
       IN  IF Len(half) = 8
           THEN RoundsFrom(half, w, t + (n \div 2), n - (n \div 2))
           ELSE s

\* The 64 rounds of the compression function from the initial hash value.
Rounds(w) == RoundsFrom(H0, w, 1, 64)

\* The 32 bytes of the digest. (The schedule is complete before the rounds
\* start, and the rounds before the digest is put together.)
Sha256(bytes) ==
  LET w16 == BlockWords(PadBlock(bytes))
      w == IF Len(w16) = 16 THEN Schedule(w16) ELSE w16
      s == IF Len(w) = 64 THEN Rounds(w) ELSE H0
      h == IF Len(s) = 8 THEN List([i \in 1..8 |-> Add32(H0[i], s[i])]) ELSE s
  IN  IF Len(h) # 8 THEN <<>>
      ELSE List([i \in 1..32 |->
                   LET x == h[(i + 3) \div 4]
                       r == (i - 1) % 4
                   IN  IF r = 0 THEN x[1] \div 256
                       ELSE IF r = 1 THEN x[1] % 256
                       ELSE IF r = 2 THEN x[2] \div 256
                       ELSE x[2] % 256])

(* ---------------------------------------------------------------- *)
(* The wordlist file.                                                *)
(* ---------------------------------------------------------------- *)
WordlistSize == 2048

\* The first words of the BIP39 English list; "abandon" has index 0 and
\* "about" index 3. The remaining lines stand for the rest of the list.
FirstWords ==
  << "abandon", "ability", "able", "about", "above", "absent", "absorb",
     "abstract", "absurd", "abuse", "access", "accident", "account",
     "accuse", "achieve", "acid", "acoustic", "acquire", "across", "act",
     "action", "actor", "actress", "actual", "adapt", "add", "addict",
     "address", "adjust", "admit", "adult", "advance", "advice", "aerobic",
     "affair", "afford", "afraid", "again", "age", "agent" >>

EnglishTxt ==
  List([i \in 1..WordlistSize |->
          IF i <= Len(FirstWords) THEN FirstWords[i]
          ELSE "word" \o ToString(i - 1)])

\* Words that are on no line of the list.
UnknownWords == <<"invalid", "xyzzy">>

\* What open(filename) finds: the lines of the file, or no file.
File(lines) == [exists |-> TRUE, lines |-> lines]

MissingFile == [exists |-> FALSE, lines |-> <<>>]

ShortLines == SubSeq(EnglishTxt, 1, WordlistSize - 1)

LongLines == Append(EnglishTxt, "zzz")

\* 2048 lines, the line of index 3 repeating the line of index 0.
DuplicateLines == [EnglishTxt EXCEPT ![4] = EnglishTxt[1]]

WordlistFiles ==
  {File(EnglishTxt), File(DuplicateLines), File(ShortLines), File(LongLines),
   MissingFile}

\* load_wordlist: the stripped lines when there are exactly 2048 of them; a
\* missing file and a wrong line count are both caught and give None.
load_wordlist(file) ==
  IF ~file.exists THEN None
  ELSE IF Len(file.lines) # WordlistSize THEN None
  ELSE file.lines

\* set(self.wordlist) if self.wordlist else None. "not self.wordset" is all
\* the code asks of a missing wordset, which holds of the empty set as well.
NoSet == {}

\* set(self.wordlist) if self.wordlist else None
MakeWordset(wordlist) ==
  IF wordlist = None THEN NoSet ELSE {wordlist[i] : i \in DOMAIN wordlist}

\* list.index(word): 0-based position of the first occurrence, -1 standing
\* for the ValueError of an absent word.
IndexOf(wordlist, word) ==
  IF \E i \in DOMAIN wordlist : wordlist[i] = word
  THEN (CHOOSE i \in DOMAIN wordlist :
          /\ wordlist[i] = word
          /\ \A j \in 1..(i - 1) : wordlist[j] # word) - 1
  ELSE -1

(* ---------------------------------------------------------------- *)
(* BIP39Generator.                                                   *)
(* ---------------------------------------------------------------- *)
\* calculate_checksum: the first hash byte shifted right by 4.
\* A fault of calculate_checksum: the low four bits of the first hash byte
\* taken for its first four bits.
calculate_checksum_low_bits(entropy) ==
  LET entropy_bytes == ToBytes(entropy, 16)
      hash_result == Sha256(entropy_bytes)
  IN  FromSmall(hash_result[1] % 16)

calculate_checksum(entropy) ==
  LET entropy_bytes == ToBytes(entropy, 16)
      hash_result == Sha256(entropy_bytes)
  IN  FromSmall(hash_result[1] \div 16)

\* A fault of the extraction: the groups taken from the least significant
\* end.
WordIndexAt_from_low_end(combined_bits, i) ==
  ToSmall(BitAnd(ShiftRight(combined_bits, i * 11), FromSmall(2047)))

\* A fault of the extraction: a mask of ten bits.
WordIndexAt_ten_bits(combined_bits, i) ==
  ToSmall(BitAnd(ShiftRight(combined_bits, 121 - i * 11), FromSmall(1023)))

\* (combined_bits >> (121 - i * 11)) & 0x7FF
WordIndexAt(combined_bits, i) ==
  ToSmall(BitAnd(ShiftRight(combined_bits, 121 - i * 11), FromSmall(2047)))

\* bits_to_mnemonic: what it returns, with the locals it computed.
\* raised names the exception that left the call ("none": it returned).
\* bits_to_mnemonic from the line that combines entropy and checksum on.
CombineAndSplit(wordlist, entropy, checksum) ==
  LET combined_bits == BitOr(ShiftLeft(entropy, 4), checksum)
  IN  [raised |-> "none",
       ret |-> List([i \in 1..12 |->
                       wordlist[WordIndexAt(combined_bits, i - 1) + 1]]),
       checksum |-> checksum,
       combined_bits |-> combined_bits]

bits_to_mnemonic(wordlist, entropy) ==
  IF wordlist = None
  THEN [raised |-> "none", ret |-> None, checksum |-> None,
        combined_bits |-> None]
  ELSE IF ~Fits(entropy, 16)
  THEN [raised |-> "OverflowError", ret |-> None, checksum |-> None,
        combined_bits |-> None]
  ELSE CombineAndSplit(wordlist, entropy, calculate_checksum(entropy))

\* A Python str is the sequence of its characters.
Whitespace == {" ", "\t", "\n"}

\* str.strip(): the whitespace at both ends goes.
Strip(s) ==
  LET solid == {i \in 1..Len(s) : s[i] \notin Whitespace}
  IN  IF solid = {} THEN <<>>
      ELSE SubSeq(s, CHOOSE i \in solid : \A j \in solid : i <= j,
                     CHOOSE i \in solid : \A j \in solid : i >= j)

\* str.replace(old, ''): every occurrence of old goes, found from the left
\* and never overlapping. One step of the scan: at an occurrence of old the
\* scan jumps over it, elsewhere it copies one character.
ReplaceStep(st, s, old) ==
  IF st.pos > Len(s) THEN st
  ELSE IF st.pos + Len(old) - 1 <= Len(s)
          /\ SubSeq(s, st.pos, st.pos + Len(old) - 1) = old
  THEN [done |-> st.done, pos |-> st.pos + Len(old)]
  ELSE [done |-> Append(st.done, s[st.pos]), pos |-> st.pos + 1]

\* n steps of the scan. (The first half of the steps is evaluated before
\* the second is started.)
RECURSIVE ReplaceSteps(_, _, _, _)
ReplaceSteps(st, s, old, n) ==
  IF n = 1 THEN ReplaceStep(st, s, old)
  ELSE LET half == ReplaceSteps(st, s, old, n \div 2)
       IN  IF Len(half.done) >= 0
           THEN ReplaceSteps(half, s, old, n - (n \div 2))
           ELSE st

Replace(s, old) ==
  IF s = <<>> THEN s
  ELSE ReplaceSteps([done |-> <<>>, pos |-> 1], s, old, Len(s)).done

\* The digits int(s, base) accepts, with their values.
HexDigitChars ==
  <<"0", "1", "2", "3", "4", "5", "6", "7", "8", "9",
    "a", "b", "c", "d", "e", "f">>

UpperHexDigitChars ==
  <<"0", "1", "2", "3", "4", "5", "6", "7", "8", "9",
    "A", "B", "C", "D", "E", "F">>

DigitValues(base) ==
  LET lower == [c \in {HexDigitChars[i] : i \in 1..base} |->
                  (CHOOSE i \in 1..base : HexDigitChars[i] = c) - 1]
      upper == [c \in {UpperHexDigitChars[i] : i \in 1..base} |->
                  (CHOOSE i \in 1..base : UpperHexDigitChars[i] = c) - 1]
  IN  lower @@ upper

\* The prefixes int(s, base) allows before the digits.
BasePrefixes(base) ==
  IF base = 16 THEN {<<"0", "x">>, <<"0", "X">>}
  ELSE {<<"0", "b">>, <<"0", "B">>}

\* The int with the given digits (most significant first) in base 2^width.
FromDigits(digits, value, width) ==
  LET n == Len(digits)
  IN  Norm(List([k \in 1..(n * width) |->
                   (value[digits[n - ((k - 1) \div width)]]
                      \div Pow2((k - 1) % width)) % 2]))

\* int(s, base) for base 2 and 16. Python strips whitespace, takes one sign,
\* takes the prefix of the base, and takes digits with single underscores
\* between them (one may follow the prefix); anything else is a ValueError.
\* A Python int is its sign and its magnitude. The steps of int(s, base)
\* follow, IntOf last.

\* The string without its sign.
Unsigned(t) == IF t # <<>> /\ t[1] \in {"+", "-"} THEN Tail(t) ELSE t

\* The string without the prefix of the base and the underscore after it.
Unprefixed(u, base) ==
  IF Len(u) >= 2 /\ SubSeq(u, 1, 2) \in BasePrefixes(base)
  THEN IF Len(u) >= 3 /\ u[3] = "_" THEN SubSeq(u, 4, Len(u))
       ELSE SubSeq(u, 3, Len(u))
  ELSE u

\* Digits of the base, single underscores between them.
WellFormed(body, value) ==
  /\ body # <<>>
  /\ \A i \in 1..Len(body) : body[i] = "_" \/ body[i] \in DOMAIN value
  /\ body[1] # "_"
  /\ body[Len(body)] # "_"
  /\ \A i \in 1..(Len(body) - 1) : ~(body[i] = "_" /\ body[i + 1] = "_")

WithoutUnderscores(body) ==
  LET IsDigit(c) == c # "_"
  IN  SelectSeq(body, IsDigit)

Signed(negative, magnitude) ==
  [raised |-> "none",
   ret |-> [negative |-> negative /\ magnitude # <<>>,
            magnitude |-> magnitude]]

ParseBody(negative, body, value, width) ==
  IF ~WellFormed(body, value)
  THEN [raised |-> "ValueError", ret |-> None]
  ELSE Signed(negative, FromDigits(WithoutUnderscores(body), value, width))

ParseStripped(t, base) ==
  ParseBody(t # <<>> /\ t[1] = "-", Unprefixed(Unsigned(t), base),
            DigitValues(base), IF base = 16 THEN 4 ELSE 1)

IntOf(s, base) == ParseStripped(Strip(s), base)

\* The except clause of both parsers: a ValueError is raised again with the
\* parser's own text in front.
Reraise(parsed, text) ==
  IF parsed.raised # "none"
  THEN [raised |-> "ValueError", ret |-> None,
        message |-> <<text, "invalid literal for int()">>]
  ELSE [raised |-> "none", ret |-> parsed.ret, message |-> None]

\* entropy_from_hex from the length test on.
HexOfStripped(stripped) ==
  IF Len(stripped) # 32
  THEN [raised |-> "ValueError", ret |-> None,
        message |-> <<"Invalid hex input",
                      "Hex string must be exactly 32 characters (128 bits)">>]
  ELSE Reraise(IntOf(stripped, 16), "Invalid hex input")

\* entropy_from_hex: the int of the string, or the ValueError it raises
\* again as "Invalid hex input".
entropy_from_hex(hex_string) ==
  HexOfStripped(Replace(Strip(hex_string), <<"0", "x">>))

\* entropy_from_binary from the length test on.
BinaryOfStripped(stripped) ==
  IF Len(stripped) # 128
  THEN [raised |-> "ValueError", ret |-> None,
        message |-> <<"Invalid binary input",
                      "Binary string must be exactly 128 characters">>]
  ELSE IF \E i \in 1..Len(stripped) : stripped[i] \notin {"0", "1"}
  THEN [raised |-> "ValueError", ret |-> None,
        message |-> <<"Invalid binary input",
                      "Binary string can only contain 0s and 1s">>]
  ELSE Reraise(IntOf(stripped, 2), "Invalid binary input")

\* entropy_from_binary: the int of the string, or the ValueError it raises
\* again as "Invalid binary input".
entropy_from_binary(binary_string) ==
  BinaryOfStripped(Replace(Strip(binary_string), <<" ">>))

\* entropy_input=None: no string at all, which is not the empty string.
NoEntropyInput == <<"None">>

\* What generate_mnemonic sees of a call of bits_to_mnemonic.
Outcome(b) == [raised |-> b.raised, ret |-> b.ret]

\* bits_to_mnemonic on the int a parser returned: without a wordlist it
\* returns None at once; calculate_checksum's to_bytes raises OverflowError
\* on a negative int as on one that is too wide.
EncodeInt(wordlist, entropy) ==
  IF wordlist # None /\ entropy.negative
  THEN [raised |-> "OverflowError", ret |-> None]
  ELSE Outcome(bits_to_mnemonic(wordlist, entropy.magnitude))

\* The entropy generate_mnemonic takes from its arguments, or the
\* ValueError of its parsers and of an unknown input type. random is what
\* generate_random_entropy would return.
EntropyOf(entropy_input, input_type, random) ==
  IF input_type = "random" \/ entropy_input = NoEntropyInput
  THEN [raised |-> "none",
        ret |-> [negative |-> FALSE, magnitude |-> random],
        message |-> None]
  ELSE IF input_type = "hex" THEN entropy_from_hex(entropy_input)
  ELSE IF input_type = "binary" THEN entropy_from_binary(entropy_input)
  ELSE [raised |-> "ValueError", ret |-> None,
        message |-> <<"Invalid input type">>]

\* generate_mnemonic from the entropy on: a ValueError is printed and None
\* returned, any other exception leaves the call.
EncodeParsed(wordlist, parsed) ==
  IF parsed.raised = "ValueError"
  THEN [raised |-> "none", ret |-> None, printed |-> parsed.message]
  ELSE EncodeInt(wordlist, parsed.ret) @@ [printed |-> None]

\* generate_mnemonic: the list of words or None it returns, the message it
\* prints, and the exception that leaves it ("none": it returned).
generate_mnemonic(wordlist, entropy_input, input_type, random) ==
  EncodeParsed(wordlist, EntropyOf(entropy_input, input_type, random))

(* ---------------------------------------------------------------- *)
(* BIP39Validator.                                                   *)
(* ---------------------------------------------------------------- *)
\* A mnemonic string is the sequence of its words and of the whitespace
\* characters around them, a word being a run of characters that are not
\* whitespace. Typed gives the string with the whitespace lead before the
\* first word, sep between two words and trail after the last.
Typed(words, lead, sep, trail) ==
  LET period == 1 + Len(sep)
      n == IF words = <<>> THEN 0 ELSE Len(words) + (Len(words) - 1) * Len(sep)
  IN  lead
      \o List([p \in 1..n |->
                 IF (p - 1) % period = 0 THEN words[((p - 1) \div period) + 1]
                 ELSE sep[(p - 1) % period]])
      \o trail

\* ' '.join(words)
MnemonicString(tokens) == Typed(tokens, <<>>, <<" ">>, <<>>)

\* str.lower() on the words the callers type.
UpperForms == [w \in {"ABANDON", "Abandon"} |-> "abandon"]
              @@ [w \in {"ABOUT", "About"} |-> "about"]
              @@ [w \in {"INVALID", "Invalid"} |-> "invalid"]

Lower(token) == IF token \in DOMAIN UpperForms THEN UpperForms[token] ELSE token

\* A fault of the cleaning: the letters left in the case they were typed in.
Clean_keeps_case(m) == Strip(m)

\* mnemonic.strip().lower(): the whitespace at both ends goes, that between
\* the words stays.
Clean(m) ==
  LET stripped == Strip(m)
  IN  List([i \in 1..Len(stripped) |-> Lower(stripped[i])])

\* str.split(): the words, whatever whitespace is between them.
Split(m) ==
  LET IsWord(c) == c \notin Whitespace
  IN  SelectSeq(m, IsWord)

\* valid_lengths of validate_word_count: word count -> entropy bit length.
valid_lengths ==
  (12 :> 128) @@ (15 :> 160) @@ (18 :> 192) @@ (21 :> 224) @@ (24 :> 256)

\* A fault of validate_word_count: every count from 12 to 24 accepted.
validate_word_count_in_range(mnemonic_words) ==
  LET word_count == Len(mnemonic_words)
  IN  IF word_count < 12 \/ word_count > 24
      THEN <<FALSE, [text |-> "Invalid word count", word_count |-> word_count,
                     valid_counts |-> DOMAIN valid_lengths]>>
      ELSE <<TRUE, 128 + 32 * ((word_count - 12) \div 3)>>

\* validate_word_count: <<True, entropy bit length>> or <<False, message>>.
validate_word_count(mnemonic_words) ==
  LET word_count == Len(mnemonic_words)
  IN  IF word_count \notin DOMAIN valid_lengths
      THEN <<FALSE, [text |-> "Invalid word count", word_count |-> word_count,
                     valid_counts |-> DOMAIN valid_lengths]>>
      ELSE <<TRUE, valid_lengths[word_count]>>

\* A fault of the loop of validate_words_in_wordlist: it stops at the first
\* word that is not in the wordset.
InvalidWords_first_only(set, mnemonic_words) ==
  LET NotInSet(p) == p[2] \notin set
      all == SelectSeq(List([i \in 1..Len(mnemonic_words) |->
                               <<i, mnemonic_words[i]>>]), NotInSet)
  IN  IF all = <<>> THEN <<>> ELSE <<all[1]>>

\* The loop of validate_words_in_wordlist: the (1-based position, word)
\* pairs of the words that are not in the wordset, in the order of the words.
InvalidWords(set, mnemonic_words) ==
  LET NotInSet(p) == p[2] \notin set
  IN  SelectSeq(List([i \in 1..Len(mnemonic_words) |-> <<i, mnemonic_words[i]>>]),
                NotInSet)

validate_words_in_wordlist(set, mnemonic_words) ==
  IF set = NoSet
  THEN <<FALSE, [text |-> "Wordlist not loaded"]>>
  ELSE LET invalid_words == InvalidWords(set, mnemonic_words)
       IN  IF invalid_words # <<>>
           THEN <<FALSE, [text |-> "Invalid words found",
                          invalid_words |-> invalid_words]>>
           ELSE <<TRUE, [text |-> "All words are in the BIP39 wordlist"]>>

\* A fault of the bit loop: the bits of a byte read from its least
\* significant end.
RECURSIVE ChecksumLoop_low_bit_first(_, _, _, _)
ChecksumLoop_low_bit_first(hash_result, checksum, i, checksum_bit_length) ==
  IF i >= checksum_bit_length THEN checksum
  ELSE LET byte_index == i \div 8
           bit_in_byte == i % 8
           bit_value == (hash_result[byte_index + 1] \div Pow2(bit_in_byte)) % 2
       IN  ChecksumLoop_low_bit_first(hash_result, checksum * 2 + bit_value,
                                      i + 1, checksum_bit_length)

\* The bit loop of calculate_checksum_bits: bit i of the hash, counted from
\* the most significant bit of the first byte, is shifted into checksum.
RECURSIVE ChecksumLoop(_, _, _, _)
ChecksumLoop(hash_result, checksum, i, checksum_bit_length) ==
  IF i >= checksum_bit_length THEN checksum
  ELSE LET byte_index == i \div 8
           bit_in_byte == 7 - (i % 8)
           bit_value == (hash_result[byte_index + 1] \div Pow2(bit_in_byte)) % 2
       IN  ChecksumLoop(hash_result, checksum * 2 + bit_value, i + 1,
                        checksum_bit_length)

\* calculate_checksum_bits, with the bytes it hashed and the digest.
\* calculate_checksum_bits from the digest on.
FirstBits(entropy_bytes, hash_result, checksum_bit_length) ==
  [raised |-> "none",
   entropy_bytes |-> entropy_bytes,
   hash_result |-> hash_result,
   checksum |-> FromSmall(ChecksumLoop(hash_result, 0, 0,
                                       checksum_bit_length))]

calculate_checksum_bits(entropy, entropy_bit_length) ==
  LET entropy_byte_length == entropy_bit_length \div 8
      entropy_bytes == ToBytes(entropy, entropy_byte_length)
  IN  IF ~Fits(entropy, entropy_byte_length)
      THEN [raised |-> "OverflowError"]
      ELSE FirstBits(entropy_bytes, Sha256(entropy_bytes),
                     entropy_bit_length \div 32)

\* for index in word_indices: combined_bits = (combined_bits << 11) | index
\* over the indices of positions i..last. (The first half of the loop is
\* evaluated before the second is started.)
RECURSIVE CombineIndices(_, _, _, _)
CombineIndices(word_indices, combined_bits, i, last) ==
  IF Len(combined_bits) >= 0 /\ i < last
  THEN CombineIndices(word_indices,
                      CombineIndices(word_indices, combined_bits, i,
                                     (i + last) \div 2),
                      ((i + last) \div 2) + 1, last)
  ELSE IF i > last THEN combined_bits
  ELSE BitOr(ShiftLeft(combined_bits, 11), FromSmall(word_indices[i]))

\* A fault of validate_checksum: a mismatch raised, not returned.
CompareRaising(expected, actual_checksum, checksum_bit_length, locals) ==
  IF expected.raised # "none"
  THEN [raised |-> expected.raised, ret |-> None, locals |-> None]
  ELSE IF actual_checksum # expected.checksum
  THEN [raised |-> "ValueError", ret |-> None, locals |-> None]
  ELSE [raised |-> "none",
        ret |-> <<TRUE,
                  [text |-> "Checksum valid",
                   expected |-> FormatBinary(expected.checksum,
                                             checksum_bit_length),
                   actual |-> FormatBinary(actual_checksum,
                                           checksum_bit_length)]>>,
        locals |-> locals @@
                   [expected_checksum |-> expected.checksum,
                    entropy_bytes |-> expected.entropy_bytes,
                    hash_result |-> expected.hash_result]]

\* A fault of validate_checksum: the expected checksum reported as the
\* actual one.
CompareEchoing(expected, actual_checksum, checksum_bit_length, locals) ==
  IF expected.raised # "none"
  THEN [raised |-> expected.raised, ret |-> None, locals |-> None]
  ELSE [raised |-> "none",
        ret |-> <<actual_checksum = expected.checksum,
                  [text |-> IF actual_checksum = expected.checksum
                            THEN "Checksum valid"
                            ELSE "Checksum invalid",
                   expected |-> FormatBinary(expected.checksum,
                                             checksum_bit_length),
                   actual |-> FormatBinary(expected.checksum,
                                           checksum_bit_length)]>>,
        locals |-> locals @@
                   [expected_checksum |-> expected.checksum,
                    entropy_bytes |-> expected.entropy_bytes,
                    hash_result |-> expected.hash_result]]

\* validate_checksum from the comparison of the two checksums on.
CompareChecksums(expected, actual_checksum, checksum_bit_length, locals) ==
  IF expected.raised # "none"
  THEN [raised |-> expected.raised, ret |-> None, locals |-> None]
  ELSE [raised |-> "none",
        ret |-> <<actual_checksum = expected.checksum,
                  [text |-> IF actual_checksum = expected.checksum
                            THEN "Checksum valid"
                            ELSE "Checksum invalid",
                   expected |-> FormatBinary(expected.checksum,
                                             checksum_bit_length),
                   actual |-> FormatBinary(actual_checksum,
                                           checksum_bit_length)]>>,
        locals |-> locals @@
                   [expected_checksum |-> expected.checksum,
                    entropy_bytes |-> expected.entropy_bytes,
                    hash_result |-> expected.hash_result]]

\* validate_checksum: ret is the pair it returns, locals what it computed.
validate_checksum(wordlist, mnemonic_words, entropy_bit_length) ==
  LET word_indices == List([i \in 1..Len(mnemonic_words) |->
                              IndexOf(wordlist, mnemonic_words[i])])
      missing == {i \in 1..Len(mnemonic_words) : word_indices[i] = -1}
  IN  IF missing # {}
      THEN LET first == CHOOSE i \in missing : \A j \in missing : i <= j
           IN  [raised |-> "none",
                ret |-> <<FALSE, [text |-> "Word not found in wordlist",
                                  word |-> mnemonic_words[first]]>>,
                locals |-> None]
      ELSE LET combined_bits == CombineIndices(word_indices, <<>>, 1, Len(word_indices))
               checksum_bit_length == entropy_bit_length \div 32
               entropy == ShiftRight(combined_bits, checksum_bit_length)
               actual_checksum == BitAnd(combined_bits, Mask(checksum_bit_length))
           IN  CompareChecksums(
                 calculate_checksum_bits(entropy, entropy_bit_length),
                 actual_checksum, checksum_bit_length,
                 [word_indices |-> word_indices,
                  combined_bits |-> combined_bits,
                  entropy_bits |-> entropy,
                  actual_checksum |-> actual_checksum])

\* A fault of validate_mnemonic: the overall result taken from the first
\* two stages alone.
RecordChecksum_two_stages(vc, head, v2, entropy_bit_length) ==
  LET stages == <<"validate_word_count", "validate_words_in_wordlist",
                  "validate_checksum">>
  IN  IF vc.raised # "none"
      THEN [raised |-> vc.raised, ret |-> FALSE,
            results |-> None, calls |-> stages, locals |-> None]
      ELSE
        LET v3 == v2 @@ [checksum |->
                           [valid |-> vc.ret[1], message |-> vc.ret[2]]]
            valid == v3.word_count.valid /\ v3.words_in_wordlist.valid
        IN  [raised |-> "none", ret |-> valid,
             results |-> head @@ [validations |-> v3,
                                  valid |-> valid,
                                  entropy_bits |-> entropy_bit_length],
             calls |-> stages, locals |-> vc.locals]

\* validate_mnemonic from the result of the checksum stage on.
RecordChecksum(vc, head, v2, entropy_bit_length) ==
  LET stages == <<"validate_word_count", "validate_words_in_wordlist",
                  "validate_checksum">>
  IN  IF vc.raised # "none"
      THEN [raised |-> vc.raised, ret |-> FALSE,
            results |-> None, calls |-> stages, locals |-> None]
      ELSE
        LET v3 == v2 @@ [checksum |->
                           [valid |-> vc.ret[1], message |-> vc.ret[2]]]
            valid == v3.word_count.valid /\ v3.words_in_wordlist.valid
                     /\ v3.checksum.valid
        IN  [raised |-> "none", ret |-> valid,
             results |-> head @@ [validations |-> v3,
                                  valid |-> valid,
                                  entropy_bits |-> entropy_bit_length],
             calls |-> stages, locals |-> vc.locals]

\* A fault of validate_mnemonic: no return after a failed word count, the
\* membership stage runs all the same.
validate_mnemonic_no_early_return(wordlist, set, m) ==
  IF wordlist = None
  THEN [raised |-> "none", ret |-> FALSE,
        results |-> [error |-> "Wordlist not loaded"],
        calls |-> <<>>, locals |-> None]
  ELSE
    LET cleaned == Clean(m)
        mnemonic_words == Split(cleaned)
        head == [mnemonic |-> cleaned, word_count |-> Len(mnemonic_words),
                 words |-> mnemonic_words]
        wc == validate_word_count(mnemonic_words)
        ww == validate_words_in_wordlist(set, mnemonic_words)
        v2 == [word_count |->
                 [valid |-> wc[1],
                  message |-> IF ~wc[1] THEN wc[2]
                              ELSE [text |-> "Valid word count",
                                    entropy_bits |-> wc[2]]],
               words_in_wordlist |-> [valid |-> ww[1], message |-> ww[2]]]
    IN  IF ~wc[1] \/ ~ww[1]
        THEN [raised |-> "none", ret |-> FALSE,
              results |-> head @@ [validations |-> v2, valid |-> FALSE],
              calls |-> <<"validate_word_count",
                          "validate_words_in_wordlist">>,
              locals |-> None]
        ELSE RecordChecksum(
               validate_checksum(wordlist, mnemonic_words, wc[2]),
               head, v2, wc[2])

\* A fault of validate_mnemonic: no test of the wordlist, the stages run on
\* a validator that has none.
validate_mnemonic_unguarded(wordlist, set, m) ==
  LET cleaned == Clean(m)
      mnemonic_words == Split(cleaned)
      head == [mnemonic |-> cleaned, word_count |-> Len(mnemonic_words),
               words |-> mnemonic_words]
      wc == validate_word_count(mnemonic_words)
      ww == validate_words_in_wordlist(set, mnemonic_words)
      v1 == [word_count |->
               [valid |-> wc[1],
                message |-> IF ~wc[1] THEN wc[2]
                            ELSE [text |-> "Valid word count",
                                  entropy_bits |-> wc[2]]]]
      v2 == v1 @@ [words_in_wordlist |-> [valid |-> ww[1], message |-> ww[2]]]
  IN  IF ~wc[1]
      THEN [raised |-> "none", ret |-> FALSE,
            results |-> head @@ [validations |-> v1, valid |-> FALSE],
            calls |-> <<"validate_word_count">>, locals |-> None]
      ELSE IF ~ww[1]
      THEN [raised |-> "none", ret |-> FALSE,
            results |-> head @@ [validations |-> v2, valid |-> FALSE],
            calls |-> <<"validate_word_count", "validate_words_in_wordlist">>,
            locals |-> None]
      ELSE RecordChecksum(
             validate_checksum(wordlist, mnemonic_words, wc[2]),
             head, v2, wc[2])

\* validate_mnemonic: the boolean and the dictionary it returns, the stage
\* functions it called and the locals of the checksum stage; raised names
\* the exception that left the call ("none": it returned).
validate_mnemonic(wordlist, set, m) ==
  IF wordlist = None
  THEN [raised |-> "none", ret |-> FALSE,
        results |-> [error |-> "Wordlist not loaded"],
        calls |-> <<>>, locals |-> None]
  ELSE
    LET cleaned == Clean(m)
        mnemonic_words == Split(cleaned)
        head == [mnemonic |-> cleaned, word_count |-> Len(mnemonic_words),
                 words |-> mnemonic_words]
        wc == validate_word_count(mnemonic_words)
        v1 == [word_count |->
                 [valid |-> wc[1],
                  message |-> IF ~wc[1] THEN wc[2]
                              ELSE [text |-> "Valid word count",
                                    entropy_bits |-> wc[2]]]]
    IN  IF ~wc[1]
        THEN [raised |-> "none", ret |-> FALSE,
              results |-> head @@ [validations |-> v1, valid |-> FALSE],
              calls |-> <<"validate_word_count">>, locals |-> None]
        ELSE
          LET entropy_bit_length == wc[2]
              ww == validate_words_in_wordlist(set, mnemonic_words)
              v2 == v1 @@ [words_in_wordlist |->
                             [valid |-> ww[1], message |-> ww[2]]]
          IN  IF ~ww[1]
              THEN [raised |-> "none", ret |-> FALSE,
                    results |-> head @@ [validations |-> v2, valid |-> FALSE],
                    calls |-> <<"validate_word_count",
                                "validate_words_in_wordlist">>,
                    locals |-> None]
              ELSE RecordChecksum(
                     validate_checksum(wordlist, mnemonic_words,
                                       entropy_bit_length),
                     head, v2, entropy_bit_length)

\* get_mnemonic_info from the result of validate_mnemonic on.
AddBinaryInfo(wordlist, v) ==
  IF v.raised # "none" \/ ~v.ret
  THEN [validation |-> v, details |-> v.results]
  ELSE
    LET details == v.results
        mnemonic_words == details.words
        word_indices == List([i \in 1..Len(mnemonic_words) |->
                                IndexOf(wordlist, mnemonic_words[i])])
        combined_bits == CombineIndices(word_indices, <<>>, 1, Len(word_indices))
        entropy_bit_length == details.entropy_bits
        checksum_bit_length == entropy_bit_length \div 32
        entropy == ShiftRight(combined_bits, checksum_bit_length)
        checksum_bits == BitAnd(combined_bits, Mask(checksum_bit_length))
    IN  [validation |-> v,
         details |-> details @@
           [binary_info |->
              [entropy_binary |-> FormatBinary(entropy, entropy_bit_length),
               entropy_hex |-> FormatHex(entropy, entropy_bit_length \div 4),
               checksum_binary |-> FormatBinary(checksum_bits,
                                                checksum_bit_length),
               combined_bits |-> combined_bits,
               word_indices |-> word_indices]]]

\* get_mnemonic_info: the details of validate_mnemonic, with binary_info
\* added when the mnemonic is valid.
get_mnemonic_info(wordlist, set, m) ==
  AddBinaryInfo(wordlist, validate_mnemonic(wordlist, set, m))

(* ---------------------------------------------------------------- *)
(* The callers' inputs.                                              *)
(* ---------------------------------------------------------------- *)
EntropyLengths == {valid_lengths[n] : n \in DOMAIN valid_lengths}

\* The binary digits (most significant first) of an entropy of the given
\* length: seed 0 is all-zero, seed 1 all-one, the others mixed.
EntropyDigits(length, seed) ==
  List([i \in 1..length |->
          IF seed = 0 THEN 0
          ELSE IF seed = 1 THEN 1
          ELSE ((i * i + seed * i) \div (seed + 1)) % 2])

\* n words, all "abandon" but the last.
Uniform(n, last) ==
  List([i \in 1..n |-> IF i < n THEN "abandon" ELSE last])

\* Last words tried on the all-"abandon" mnemonics.
LastWords == {EnglishTxt[j + 1] : j \in {0, 3, 27, 29, 39, 102}}

UniformMnemonics ==
  {Uniform(n, last) : n \in 0..MaxWords, last \in LastWords}

\* The test mnemonics of the validator's main().
ExampleMnemonics ==
  { Uniform(12, "about"),
    Uniform(12, "abandon"),
    <<"invalid", "word", "list", "test", "invalid", "word", "list", "test",
      "invalid", "word", "list">>,
    Uniform(10, "abandon") }

\* The same words typed with capitals.
CapitalMnemonics ==
  { List([i \in 1..12 |-> IF i < 12 THEN "Abandon" ELSE "ABOUT"]) }

\* Mnemonics with words that are on no line of the list, at any non-empty
\* set of the positions BadPositions.
BadPositions == {1, 3, 9, 12}

WithUnknown(words, positions) ==
  List([i \in 1..Len(words) |->
          IF i \in positions THEN UnknownWords[(i % 2) + 1] ELSE words[i]])

UnknownMnemonics ==
  {WithUnknown(Uniform(n, "about"), p) :
     n \in {12, 13, 24}, p \in (SUBSET BadPositions) \ {{}}}

\* str.upper() and str.capitalize() on the words the callers type.
Recase(token, style) ==
  CASE token = "abandon" -> IF style = "upper" THEN "ABANDON" ELSE "Abandon"
    [] token = "about" -> IF style = "upper" THEN "ABOUT" ELSE "About"
    [] token = "invalid" -> IF style = "upper" THEN "INVALID" ELSE "Invalid"
    [] OTHER -> token

\* The ways a caller types the same words again: whitespace at both ends,
\* wider whitespace between the words, capitals, all of these.
VariantStyles == {"padded", "wide", "upper", "mixed"}

Variant(words, style) ==
  CASE style = "padded" -> Typed(words, <<" ", "\t">>, <<" ">>, <<"\n">>)
    [] style = "wide" -> Typed(words, <<>>, <<" ", "\t", " ">>, <<>>)
    [] style = "upper" ->
         Typed(List([i \in 1..Len(words) |-> Recase(words[i], "upper")]),
               <<>>, <<" ">>, <<>>)
    [] style = "mixed" ->
         Typed(List([i \in 1..Len(words) |-> Recase(words[i], "capital")]),
               <<"\n">>, <<" ", " ">>, <<" ", " ">>)

FreshMnemonics ==
  UniformMnemonics \cup ExampleMnemonics \cup CapitalMnemonics
  \cup UnknownMnemonics

ReplaceLast(words, word) == [words EXCEPT ![Len(words)] = word]

\* Twelve word indices: index at the first position, each next position
\* further by a step that k chooses (k = 0: twelve times the same index).
\* With index over 0..2047 every position holds every index.
IndicesFrom(index, k) ==
  List([i \in 1..12 |-> (index + (i - 1) * ((k * 683) % WordlistSize))
                          % WordlistSize])

\* Entropy bit lengths that are none of the five of valid_lengths.
OtherLengths == {0, 8, 64, 96, 136, 288}

\* The 32 hexadecimal digits and the 128 binary digits of the 128-bit
\* entropy of a seed, as strings.
HexString(seed) ==
  LET digits == FormatHex(FromBinary(EntropyDigits(128, seed)), 32)
  IN  List([i \in 1..32 |-> HexDigitChars[digits[i] + 1]])

BinaryString(seed) ==
  LET digits == EntropyDigits(128, seed)
  IN  List([i \in 1..128 |-> IF digits[i] = 1 THEN "1" ELSE "0"])

\* str.upper() on hexadecimal digits.
Upper(s) ==
  List([i \in 1..Len(s) |->
          IF \E k \in 11..16 : HexDigitChars[k] = s[i]
          THEN UpperHexDigitChars[CHOOSE k \in 11..16 : HexDigitChars[k] = s[i]]
          ELSE s[i]])

\* s with c put before its character number i.
InsertAt(s, i, c) == SubSeq(s, 1, i - 1) \o c \o SubSeq(s, i, Len(s))

\* The input types a caller passes, "other" for any that the code does not
\* know.
InputTypes == {"random", "hex", "binary", "other"}

\* The ways a caller types a hexadecimal entropy.
HexForms ==
  {"plain", "upper", "prefixed", "padded", "plus", "minus", "underscore",
   "upper_prefix", "short", "long", "bad_digit", "inner_space", "empty"}

HexInput(form, seed) ==
  LET h == HexString(seed)
  IN  CASE form = "plain" -> h
        [] form = "upper" -> Upper(h)
        [] form = "prefixed" -> <<"0", "x">> \o h
        [] form = "padded" -> <<" ">> \o h \o <<" ", "\t">>
        [] form = "plus" -> <<"+">> \o SubSeq(h, 1, 31)
        [] form = "minus" -> <<"-">> \o SubSeq(h, 1, 31)
        [] form = "underscore" -> InsertAt(SubSeq(h, 1, 31), 2, <<"_">>)
        [] form = "upper_prefix" -> <<"0", "X">> \o SubSeq(h, 1, 30)
        [] form = "short" -> SubSeq(h, 1, 31)
        [] form = "long" -> h \o <<"0">>
        [] form = "bad_digit" -> <<"g">> \o SubSeq(h, 2, 32)
        [] form = "inner_space" -> InsertAt(SubSeq(h, 1, 31), 17, <<" ">>)
        [] form = "empty" -> <<>>

\* The ways a caller types a binary entropy.
BinaryForms ==
  {"plain", "padded", "spaced", "prefixed", "plus", "minus", "underscore",
   "short", "long", "bad_digit", "inner_tab", "empty"}

\* The digits in groups of eight, a space between two groups.
Spaced(b) ==
  List([i \in 1..(Len(b) + (Len(b) - 1) \div 8) |->
          IF i % 9 = 0 THEN " " ELSE b[i - (i \div 9)]])

BinaryInput(form, seed) ==
  LET b == BinaryString(seed)
  IN  CASE form = "plain" -> b
        [] form = "padded" -> <<"\t", " ">> \o b \o <<" ">>
        [] form = "spaced" -> Spaced(b)
        [] form = "prefixed" -> <<"0", "b">> \o SubSeq(b, 1, 126)
        [] form = "plus" -> <<"+">> \o SubSeq(b, 1, 127)
        [] form = "minus" -> <<"-">> \o SubSeq(b, 1, 127)
        [] form = "underscore" -> InsertAt(SubSeq(b, 1, 127), 2, <<"_">>)
        [] form = "short" -> SubSeq(b, 1, 127)
        [] form = "long" -> b \o <<"0">>
        [] form = "bad_digit" -> <<"2">> \o SubSeq(b, 2, 128)
        [] form = "inner_tab" -> InsertAt(SubSeq(b, 1, 127), 65, <<"\t">>)
        [] form = "empty" -> <<>>

(* ---------------------------------------------------------------- *)
(* State machine.                                                    *)
(* ---------------------------------------------------------------- *)
NoGen == [raised |-> "none", ret |-> None, checksum |-> None,
          combined_bits |-> None]

NoCall ==
  /\ op' = "none"
  /\ raised' = "none"
  /\ entropy_len' = 0
  /\ entropy_bits' = None
  /\ gen' = NoGen
  /\ mnemonic' = None
  /\ base_words' = None
  /\ val_ret' = FALSE
  /\ results' = None
  /\ calls' = <<>>
  /\ chk' = None
  /\ info' = None
  /\ call_args' = None
  /\ call_ret' = None

Init ==
  /\ english_txt \in WordlistFiles
  /\ constructed = {}
  /\ gen_wordlist = None
  /\ val_wordlist = None
  /\ wordset = NoSet
  /\ op = "none"
  /\ raised = "none"
  /\ entropy_len = 0
  /\ entropy_bits = None
  /\ gen = NoGen
  /\ mnemonic = None
  /\ base_words = None
  /\ val_ret = FALSE
  /\ results = None
  /\ calls = <<>>
  /\ chk = None
  /\ info = None
  /\ call_args = None
  /\ call_ret = None

\* BIP39Generator.__init__
GeneratorInit ==
  /\ "generator" \notin constructed
  /\ constructed' = constructed \cup {"generator"}
  /\ gen_wordlist' = load_wordlist(english_txt)
  /\ UNCHANGED <<english_txt, val_wordlist, wordset, op, raised,
                 entropy_len, entropy_bits, gen, mnemonic, base_words,
                 val_ret, results, calls, chk, info, call_args, call_ret>>

\* BIP39Validator.__init__
ValidatorInit ==
  /\ "validator" \notin constructed
  /\ constructed' = constructed \cup {"validator"}
  /\ val_wordlist' = load_wordlist(english_txt)
  /\ wordset' = MakeWordset(load_wordlist(english_txt))
  /\ UNCHANGED <<english_txt, gen_wordlist, op, raised, entropy_len,
                 entropy_bits, gen, mnemonic, base_words, val_ret, results,
                 calls, chk, info, call_args, call_ret>>

\* The session has built its generator and its validator, as the two
\* main() functions do before their menus take any request.
Ready == constructed = {"generator", "validator"}

\* A caller encodes an entropy of one of the five lengths.
BitsToMnemonic(length, seed) ==
  /\ Ready
  /\ op = "none"
  /\ op' = "bits_to_mnemonic"
  /\ entropy_len' = length
  /\ entropy_bits' = FromBinary(EntropyDigits(length, seed))
  /\ gen' = bits_to_mnemonic(gen_wordlist, entropy_bits')
  /\ raised' = gen'.raised
  /\ UNCHANGED <<english_txt, constructed, gen_wordlist, val_wordlist,
                 wordset, mnemonic, base_words, val_ret, results, calls, chk,
                 info, call_args, call_ret>>

\* The caller drops the last result and is ready for another call.
ReturnToMenu ==
  /\ op # "none"
  /\ NoCall
  /\ UNCHANGED <<english_txt, constructed, gen_wordlist, val_wordlist,
                 wordset>>

\* A call of validate_mnemonic on the string s and what it leaves behind.
DoValidateString(s) ==
  /\ Ready
  /\ \E v \in {validate_mnemonic(val_wordlist, wordset, s)} :
      /\ op' = "validate_mnemonic"
      /\ raised' = v.raised
      /\ mnemonic' = s
      /\ val_ret' = v.ret
      /\ results' = v.results
      /\ calls' = v.calls
      /\ chk' = v.locals
      /\ info' = None
      /\ gen' = NoGen
      /\ UNCHANGED <<english_txt, constructed, gen_wordlist, val_wordlist,
                     wordset>>

\* A call of validate_mnemonic on the words m, a space between two words.
DoValidate(m) ==
  /\ DoValidateString(MnemonicString(m))
  /\ UNCHANGED <<call_args, call_ret>>

\* A caller validates a mnemonic of its own.
ValidateMnemonic(m) ==
  /\ op = "none"
  /\ DoValidate(m)
  /\ entropy_len' = 0
  /\ entropy_bits' = None
  /\ base_words' = None

\* A caller validates the mnemonic bits_to_mnemonic has just returned.
ValidateGenerated ==
  /\ op = "bits_to_mnemonic"
  /\ gen.ret # None
  /\ DoValidate(gen.ret)
  /\ base_words' = None
  /\ UNCHANGED <<entropy_len, entropy_bits>>

\* A caller replaces the last word of a mnemonic of its own, just found
\* valid, by the word on line j of the list, and validates the result.
ValidateReplaced(j) ==
  /\ op = "validate_mnemonic"
  /\ raised = "none"
  /\ val_ret
  /\ base_words = None
  /\ call_args = None
  /\ DoValidate(ReplaceLast(results.words, val_wordlist[j + 1]))
  /\ base_words' = results.words
  /\ UNCHANGED <<entropy_len, entropy_bits>>

\* A caller types the mnemonic just validated again, in other letter case
\* or with other whitespace, validates that, and keeps the first outcome.
ValidateVariant(style) ==
  /\ op = "validate_mnemonic"
  /\ raised = "none"
  /\ base_words = None
  /\ call_args = None
  /\ DoValidateString(Variant(Split(mnemonic), style))
  /\ call_args' = [mnemonic |-> mnemonic]
  /\ call_ret' = [raised |-> raised, ret |-> val_ret, results |-> results,
                  calls |-> calls]
  /\ base_words' = None
  /\ UNCHANGED <<entropy_len, entropy_bits>>

\* A call of get_mnemonic_info(m) and what it leaves behind.
DoInfo(m) ==
  /\ Ready
  /\ \E r \in {get_mnemonic_info(val_wordlist, wordset, MnemonicString(m))} :
      /\ op' = "get_mnemonic_info"
      /\ raised' = r.validation.raised
      /\ mnemonic' = MnemonicString(m)
      /\ val_ret' = r.validation.ret
      /\ results' = r.validation.results
      /\ calls' = r.validation.calls
      /\ chk' = r.validation.locals
      /\ info' = r.details
      /\ gen' = NoGen
      /\ base_words' = None
      /\ UNCHANGED <<english_txt, constructed, gen_wordlist, val_wordlist,
                     wordset, call_args, call_ret>>

GetMnemonicInfo(m) ==
  /\ op = "none"
  /\ DoInfo(m)
  /\ entropy_len' = 0
  /\ entropy_bits' = None

\* get_mnemonic_info on the mnemonic bits_to_mnemonic has just returned.
InfoGenerated ==
  /\ op = "bits_to_mnemonic"
  /\ gen.ret # None
  /\ DoInfo(gen.ret)
  /\ UNCHANGED <<entropy_len, entropy_bits>>

\* generator.generate_mnemonic(entropy_input, input_type); secrets.randbits
\* may return any entropy.
GenerateMnemonic(entropy_input, input_type, seed) ==
  /\ Ready
  /\ op = "none"
  /\ \E r \in {generate_mnemonic(gen_wordlist, entropy_input, input_type,
                                  FromBinary(EntropyDigits(128, seed)))} :
       /\ op' = "generate_mnemonic"
       /\ call_args' = [entropy_input |-> entropy_input,
                        input_type |-> input_type]
       /\ call_ret' = r
       /\ raised' = r.raised
  /\ UNCHANGED <<english_txt, constructed, gen_wordlist, val_wordlist,
                 wordset, entropy_len, entropy_bits, gen, mnemonic,
                 base_words, val_ret, results, calls, chk, info>>

\* The strings a caller passes with each input type.
EntropyInputs(input_type, seed) ==
  CASE input_type = "hex" ->
         {HexInput(form, seed) : form \in HexForms}
         \cup {NoEntropyInput, BinaryInput("plain", seed)}
    [] input_type = "binary" ->
         {BinaryInput(form, seed) : form \in BinaryForms}
         \cup {NoEntropyInput, HexInput("plain", seed)}
    [] OTHER ->
         {NoEntropyInput, HexInput("plain", seed), HexInput("short", seed)}

Next ==
  \/ GeneratorInit
  \/ ValidatorInit
  \/ \E length \in EntropyLengths, seed \in 0..MaxSeed :
       BitsToMnemonic(length, seed)
  \/ \E m \in FreshMnemonics : ValidateMnemonic(m)
  \/ ValidateGenerated
  \/ \E j \in 0..MaxReplIdx : ValidateReplaced(j)
  \/ \E style \in VariantStyles : ValidateVariant(style)
  \/ \E m \in ExampleMnemonics : GetMnemonicInfo(m)
  \/ InfoGenerated
  \/ \E input_type \in InputTypes, seed \in 0..MaxSeed :
       \E entropy_input \in EntropyInputs(input_type, seed) :
         GenerateMnemonic(entropy_input, input_type, seed)
  \/ ReturnToMenu

Spec == Init /\ [][Next]_vars

(* ---------------------------------------------------------------- *)
(* Calls on one method alone: the methods that use no wordlist are    *)
(* called on objects that have just been constructed.                 *)
(* ---------------------------------------------------------------- *)
\* Both objects constructed from the list file, no call made yet.
MethodInit ==
  /\ english_txt = File(EnglishTxt)
  /\ constructed = {"generator", "validator"}
  /\ gen_wordlist = load_wordlist(english_txt)
  /\ val_wordlist = load_wordlist(english_txt)
  /\ wordset = MakeWordset(load_wordlist(english_txt))
  /\ op = "none"
  /\ raised = "none"
  /\ entropy_len = 0
  /\ entropy_bits = None
  /\ gen = NoGen
  /\ mnemonic = None
  /\ base_words = None
  /\ val_ret = FALSE
  /\ results = None
  /\ calls = <<>>
  /\ chk = None
  /\ info = None
  /\ call_args = None
  /\ call_ret = None

\* What a call on one method alone leaves behind.
MethodCall(name, args, r) ==
  /\ op' = name
  /\ call_args' = args
  /\ call_ret' = r
  /\ raised' = r.raised
  /\ UNCHANGED <<english_txt, constructed, gen_wordlist, val_wordlist,
                 wordset, entropy_len, entropy_bits, gen, mnemonic,
                 base_words, val_ret, results, calls, chk, info>>

\* generator.entropy_from_hex(hex_string)
EntropyFromHex(hex_string) ==
  /\ Ready
  /\ op = "none"
  /\ MethodCall("entropy_from_hex", [hex_string |-> hex_string],
                entropy_from_hex(hex_string))

\* generator.entropy_from_binary(binary_string)
EntropyFromBinary(binary_string) ==
  /\ Ready
  /\ op = "none"
  /\ MethodCall("entropy_from_binary", [binary_string |-> binary_string],
                entropy_from_binary(binary_string))

\* validator.calculate_checksum_bits(entropy, entropy_bit_length) on an
\* entropy of that many bits.
CalculateChecksumBits(length, seed) ==
  /\ Ready
  /\ op = "none"
  /\ \E entropy \in {FromBinary(EntropyDigits(length, seed))} :
    MethodCall("calculate_checksum_bits",
               [entropy |-> entropy, entropy_bit_length |-> length],
               calculate_checksum_bits(entropy, length))

\* generator.calculate_checksum(entropy) on a 128-bit entropy.
CalculateChecksum(seed) ==
  /\ Ready
  /\ op = "none"
  /\ \E entropy \in {FromBinary(EntropyDigits(128, seed))} :
    MethodCall("calculate_checksum", [entropy |-> entropy],
               [raised |-> "none", checksum |-> calculate_checksum(entropy)])

\* The caller hands the same entropy to the validator's
\* calculate_checksum_bits and keeps both results.
ThenCalculateChecksumBits ==
  /\ op = "calculate_checksum"
  /\ \E decoder \in {calculate_checksum_bits(call_args.entropy, 128)} :
       /\ op' = "both_checksums"
       /\ call_ret' = [raised |-> decoder.raised,
                       encoder |-> call_ret.checksum,
                       decoder |-> decoder]
       /\ raised' = decoder.raised
  /\ UNCHANGED <<english_txt, constructed, gen_wordlist, val_wordlist,
                 wordset, entropy_len, entropy_bits, gen, mnemonic,
                 base_words, val_ret, results, calls, chk, info, call_args>>

\* The decoder's packing loop on twelve indices, then the encoder's
\* extraction of the twelve groups from what was packed.
PackAndExtract(word_indices) ==
  /\ Ready
  /\ op = "none"
  /\ \E combined_bits \in {CombineIndices(word_indices, <<>>, 1, 12)} :
    MethodCall("pack_and_extract",
               [word_indices |-> word_indices],
               [raised |-> "none",
                combined_bits |-> combined_bits,
                extracted |-> List([i \in 1..12 |->
                                      WordIndexAt(combined_bits, i - 1)])])

MethodNext ==
  \/ \E form \in HexForms, seed \in 0..MaxSeed :
       EntropyFromHex(HexInput(form, seed))
  \/ \E form \in BinaryForms, seed \in 0..MaxSeed :
       EntropyFromBinary(BinaryInput(form, seed))
  \/ \E length \in EntropyLengths \cup OtherLengths,
        seed \in 0..MaxChecksumSeed :
       CalculateChecksumBits(length, seed)
  \/ \E seed \in 0..MaxChecksumSeed : CalculateChecksum(seed)
  \/ ThenCalculateChecksumBits
  \/ \E index \in 0..(WordlistSize - 1), k \in 0..MaxStep :
       PackAndExtract(IndicesFrom(index, k))
  \/ ReturnToMenu

MethodSpec == MethodInit /\ [][MethodNext]_vars

(* ---------------------------------------------------------------- *)
(* Properties.                                                       *)
(* ---------------------------------------------------------------- *)
\* validate_mnemonic or get_mnemonic_info has just returned.
Validated ==
  op \in {"validate_mnemonic", "get_mnemonic_info"} /\ raised = "none"

\* The validator read a wordlist file it accepted.
Loaded == val_wordlist # None

\* The file is the canonical list.
Canonical == english_txt = File(EnglishTxt)

\* The number in the 11 bits of x from bit position pos (0: the least
\* significant bit) upwards.
GroupAt(x, pos) ==
  BitAt(x, pos + 1) + 2 * BitAt(x, pos + 2) + 4 * BitAt(x, pos + 3)
  + 8 * BitAt(x, pos + 4) + 16 * BitAt(x, pos + 5) + 32 * BitAt(x, pos + 6)
  + 64 * BitAt(x, pos + 7) + 128 * BitAt(x, pos + 8)
  + 256 * BitAt(x, pos + 9) + 512 * BitAt(x, pos + 10)
  + 1024 * BitAt(x, pos + 11)

StageOrder ==
  <<"validate_word_count", "validate_words_in_wordlist", "validate_checksum">>

\* C1 (as the specification states it): for each of the five entropy
\* lengths and every entropy of that length, bits_to_mnemonic returns a
\* mnemonic, and validate_mnemonic / get_mnemonic_info on that mnemonic
\* report the checksum stage valid and recover the entropy: the same bits,
\* at the same length.
C1_RoundTrip ==
  /\ (op = "bits_to_mnemonic" /\ gen_wordlist # None)
       => (raised = "none" /\ gen.ret # None)
  /\ (Validated /\ entropy_len # 0 /\ base_words = None)
       => /\ "checksum" \in DOMAIN results.validations
          /\ results.validations.checksum.valid
          /\ results.entropy_bits = entropy_len
          /\ chk.entropy_bits = entropy_bits
          /\ (op = "get_mnemonic_info" /\ val_ret)
               => info.binary_info.entropy_binary
                    = FormatBinary(entropy_bits, entropy_len)

\* C2: with the canonical list ("abandon" at index 0, "about" at index 3),
\* bits_to_mnemonic on 128 zero bits returns 12 words, eleven times the word
\* at index 0 and then "about"; validating that mnemonic reports it valid,
\* and validating it with "abandon" as twelfth word reports the first two
\* stages passed and the checksum stage failed.
C2_KnownVector ==
  Canonical =>
    /\ (op = "bits_to_mnemonic" /\ entropy_len = 128 /\ entropy_bits = <<>>)
         => /\ raised = "none"
            /\ Len(gen.ret) = 12
            /\ \A i \in 1..11 : gen.ret[i] = gen_wordlist[1]
            /\ gen_wordlist[1] = "abandon"
            /\ gen.ret[12] = "about"
            /\ gen_wordlist[4] = "about"
    /\ (Validated /\ results.words = Uniform(12, "about"))
         => (val_ret /\ results.valid)
    /\ (Validated /\ results.words = Uniform(12, "abandon"))
         => /\ ~val_ret
            /\ ~results.valid
            /\ DOMAIN results.validations
                 = {"word_count", "words_in_wordlist", "checksum"}
            /\ results.validations.word_count.valid
            /\ results.validations.words_in_wordlist.valid
            /\ ~results.validations.checksum.valid

\* C2 witness: with the canonical list, the mnemonic encoded from 128 zero
\* bits was found valid, and with "abandon" put in place of its twelfth
\* word it has just failed the checksum stage.
C2_Witness ==
  /\ Canonical
  /\ op = "validate_mnemonic"
  /\ entropy_len = 128
  /\ entropy_bits = <<>>
  /\ base_words = Uniform(12, "about")
  /\ results.words = Uniform(12, "abandon")
  /\ ~results.validations.checksum.valid

\* C3: bits_to_mnemonic takes the entropy as a 128-bit value, so
\* checksumLength is 4 and combinedLength 132. Whenever it returns a
\* mnemonic, CombinedBits is the entropy shifted left by 4 with the checksum
\* in the low 4 bits, there are 132/11 = 12 words, and word i (0-based) is
\* the word of the list at the index held by the 11 bits of CombinedBits at
\* bit position 132 - 11 - 11*i, an index in 0..2047: the first word holds
\* the most significant group, the last the least significant.
C3_EncodeBitOrdering ==
  (op = "bits_to_mnemonic" /\ raised = "none" /\ gen.ret # None) =>
    /\ Len(gen.combined_bits) <= 132
    /\ Len(gen.checksum) <= 4
    /\ \A b \in 0..131 :
         BitAt(gen.combined_bits, b + 1)
           = IF b < 4 THEN BitAt(gen.checksum, b + 1)
                      ELSE BitAt(entropy_bits, b - 3)
    /\ Len(gen.ret) = 132 \div 11
    /\ \A i \in 0..11 :
         /\ GroupAt(gen.combined_bits, 132 - 11 - 11 * i) \in 0..2047
         /\ gen.ret[i + 1]
              = gen_wordlist[GroupAt(gen.combined_bits, 132 - 11 - 11 * i) + 1]

\* C3 witness: a mnemonic returned for an entropy that is neither all-zero
\* nor all-one, whose first and last words differ.
C3_Witness ==
  /\ op = "bits_to_mnemonic"
  /\ gen.ret # None
  /\ \E b \in 1..128 : BitAt(entropy_bits, b) = 1
  /\ \E b \in 1..128 : BitAt(entropy_bits, b) = 0
  /\ gen.ret[1] # gen.ret[12]

\* C4: the word-count stage passes exactly when the number of words is 12,
\* 15, 18, 21 or 24, and then reports 128, 160, 192, 224 or 256 entropy
\* bits; with any other number of words it fails and the mnemonic is
\* invalid.
C4_WordCountBoundary ==
  (Validated /\ Loaded) =>
    /\ results.word_count = Len(results.words)
    /\ results.validations.word_count.valid
         <=> results.word_count \in {12, 15, 18, 21, 24}
    /\ results.validations.word_count.valid
         => <<results.word_count,
              results.validations.word_count.message.entropy_bits>>
              \in {<<12, 128>>, <<15, 160>>, <<18, 192>>, <<21, 224>>,
                   <<24, 256>>}
    /\ ~results.validations.word_count.valid => (~val_ret /\ ~results.valid)

\* C4 witness: a mnemonic of 13 words of the list has failed the word-count
\* stage.
C4_Witness ==
  /\ Validated
  /\ Loaded
  /\ results.word_count = 13
  /\ \A i \in 1..13 : results.words[i] \in wordset
  /\ ~results.validations.word_count.valid

\* C5: validate_mnemonic calls the stages in the order word count,
\* membership, checksum, each at most once and none before its
\* predecessors; when the word-count stage fails no later stage is called,
\* the report holds the outcome of the word-count stage alone, and the
\* mnemonic is invalid.
C5_StageOrdering ==
  op \in {"validate_mnemonic", "get_mnemonic_info"} =>
    /\ Len(calls) <= 3
    /\ calls = SubSeq(StageOrder, 1, Len(calls))
    /\ (Loaded /\ raised = "none") =>
         /\ Len(calls) >= 1
         /\ ~results.validations.word_count.valid
              => /\ calls = <<"validate_word_count">>
                 /\ DOMAIN results.validations = {"word_count"}
                 /\ ~results.valid
                 /\ ~val_ret

\* C5 witness: a mnemonic of 11 words, one of them not in the list, has
\* failed the word-count stage.
C5_Witness ==
  /\ Validated
  /\ Loaded
  /\ results.word_count = 11
  /\ \E i \in 1..11 : results.words[i] \notin wordset
  /\ calls = <<"validate_word_count">>

\* C6: when the word count is valid, the membership stage reports the words
\* that are not in the list, all of them, each once with its 1-based
\* position, in the order of their positions; the stage passes exactly when
\* there is none, and when it fails the checksum stage is neither called nor
\* recorded and the mnemonic is invalid.
C6_MultiErrorReporting ==
  (Validated /\ Loaded /\ results.validations.word_count.valid) =>
    LET words == results.words
        absent == {i \in 1..Len(words) : words[i] \notin wordset}
    IN  /\ "words_in_wordlist" \in DOMAIN results.validations
        /\ results.validations.words_in_wordlist.valid <=> absent = {}
        /\ absent # {} =>
             LET invalid_words ==
                   results.validations.words_in_wordlist.message.invalid_words
             IN  /\ Len(invalid_words) = Cardinality(absent)
                 /\ \A k \in 1..Len(invalid_words) :
                      /\ invalid_words[k][1] \in absent
                      /\ invalid_words[k][2] = words[invalid_words[k][1]]
                 /\ \A k \in 1..(Len(invalid_words) - 1) :
                      invalid_words[k][1] < invalid_words[k + 1][1]
                 /\ "checksum" \notin DOMAIN results.validations
                 /\ calls = SubSeq(StageOrder, 1, 2)
                 /\ ~results.valid
                 /\ ~val_ret

\* C6 witness: a mnemonic of 12 words with words at positions 3 and 9 that
\* are not in the list has failed the membership stage with both reported.
C6_Witness ==
  /\ Validated
  /\ Loaded
  /\ results.word_count = 12
  /\ {i \in 1..12 : results.words[i] \notin wordset} = {3, 9}
  /\ Len(results.validations.words_in_wordlist.message.invalid_words) = 2

\* C7: no exception leaves validate_mnemonic, and for every mnemonic that
\* passed the word-count and membership stages the checksum stage is
\* recorded as an outcome: the 11-bit indices of the words are concatenated
\* most significant word first, the top entropy_bit_length bits are the
\* entropy and the low entropy_bit_length/32 bits the actual checksum, the
\* expected checksum is the first entropy_bit_length/32 bits of the hash of
\* the entropy bytes, the stage is valid exactly when the two are equal, its
\* message carries both in either case, and it is never the message of the
\* 'word not found' branch.
C7_ChecksumIsReported ==
  /\ (op \in {"validate_mnemonic", "get_mnemonic_info"} /\ Loaded)
       => raised = "none"
  /\ (/\ Validated
      /\ Loaded
      /\ results.validations.word_count.valid
      /\ results.validations.words_in_wordlist.valid) =>
       LET words == results.words
           n == Len(words)
           L == results.validations.word_count.message.entropy_bits
           cs == L \div 32
       IN  /\ calls = StageOrder
           /\ "checksum" \in DOMAIN results.validations
           /\ \A i \in 1..n :
                /\ chk.word_indices[i] \in 0..2047
                /\ val_wordlist[chk.word_indices[i] + 1] = words[i]
                /\ GroupAt(chk.combined_bits, 11 * (n - i))
                     = chk.word_indices[i]
           /\ Len(chk.combined_bits) <= 11 * n
           /\ Len(chk.entropy_bits) <= L
           /\ \A b \in 1..L :
                BitAt(chk.entropy_bits, b) = BitAt(chk.combined_bits, cs + b)
           /\ Len(chk.actual_checksum) <= cs
           /\ \A b \in 1..cs :
                BitAt(chk.actual_checksum, b) = BitAt(chk.combined_bits, b)
           /\ Len(chk.entropy_bytes) = L \div 8
           /\ \A k \in 1..(L \div 8), b \in 1..8 :
                (chk.entropy_bytes[k] \div Pow2(b - 1)) % 2
                  = BitAt(chk.entropy_bits, 8 * ((L \div 8) - k) + b)
           /\ Len(chk.expected_checksum) <= cs
           /\ \A b \in 1..cs :
                BitAt(chk.expected_checksum, b)
                  = (chk.hash_result[1] \div Pow2(7 - cs + b)) % 2
           /\ results.validations.checksum.valid
                <=> chk.actual_checksum = chk.expected_checksum
           /\ results.validations.checksum.message.text
                = IF results.validations.checksum.valid
                  THEN "Checksum valid" ELSE "Checksum invalid"
           /\ Len(results.validations.checksum.message.expected) = cs
           /\ Len(results.validations.checksum.message.actual) = cs
           /\ \A d \in 1..cs :
                /\ results.validations.checksum.message.expected[d]
                     = BitAt(chk.expected_checksum, cs + 1 - d)
                /\ results.validations.checksum.message.actual[d]
                     = BitAt(chk.actual_checksum, cs + 1 - d)

\* C7 witness: a mnemonic of 24 words of the list has been reported with a
\* checksum mismatch, the expected and the actual checksum differing.
C7_Witness ==
  /\ Validated
  /\ Loaded
  /\ results.word_count = 24
  /\ "checksum" \in DOMAIN results.validations
  /\ ~results.validations.checksum.valid
  /\ results.validations.checksum.message.expected
       # results.validations.checksum.message.actual

\* The report records the three stages, each valid.
AllStagesValid ==
  /\ DOMAIN results.validations
       = {"word_count", "words_in_wordlist", "checksum"}
  /\ results.validations.word_count.valid
  /\ results.validations.words_in_wordlist.valid
  /\ results.validations.checksum.valid

\* The report has a 'valid' field, equal to the boolean returned, which is
\* true exactly when the three stages are recorded valid; a valid report
\* carries the outcome and the message of each of the three stages.
ValidIsConjunction ==
  /\ "valid" \in DOMAIN results
  /\ val_ret = results.valid
  /\ val_ret <=> AllStagesValid
  /\ val_ret => \A stage \in DOMAIN results.validations :
                  DOMAIN results.validations[stage] = {"valid", "message"}

\* C8 (as the specification states it): after every call of
\* validate_mnemonic the boolean returned equals the 'valid' field of the
\* report and is true exactly when the three stages are recorded valid.
C8_EveryInput == Validated => ValidIsConjunction

\* C8 (amended): that holds of every call on a validator whose wordlist is
\* loaded; on a validator without a wordlist the call returns false and the
\* report holds an error message alone: no 'valid' field, no stage.
C8_OverallValidity ==
  Validated =>
    /\ Loaded => ValidIsConjunction
    /\ ~Loaded => (~val_ret /\ DOMAIN results = {"error"})

\* C8 witness: a mnemonic of 18 words has been found valid.
C8_Witness ==
  /\ Validated
  /\ Loaded
  /\ val_ret
  /\ results.word_count = 18

\* The 0-based position in the list of the last word of the valid mnemonic
\* the caller started from.
OldIndex == IndexOf(val_wordlist, base_words[Len(base_words)])

\* The 0-based position in the list of the word put in its place.
NewIndex == chk.word_indices[Len(results.words)]

\* The 'actual' checksum of the report is the low cs bits of NewIndex.
ActualIsTrailingBits(cs) ==
  /\ Len(results.validations.checksum.message.actual) = cs
  /\ \A d \in 1..cs :
       results.validations.checksum.message.actual[d]
         = (NewIndex \div Pow2(cs - d)) % 2

\* C9 (as the specification states it): the last word of a valid mnemonic
\* replaced by a word of the list whose index differs from the old one in
\* one of the low entropy_bits/32 bit positions, the checksum stage fails,
\* and its 'actual' checksum is the low entropy_bits/32 bits of the new
\* index.
C9_AnyOtherLastWord ==
  (Validated /\ base_words # None) =>
    LET cs == results.entropy_bits \div 32
    IN  (NewIndex % Pow2(cs) # OldIndex % Pow2(cs))
          => /\ ~results.validations.checksum.valid
             /\ ActualIsTrailingBits(cs)

\* C9 (amended): the checksum stage fails when the new index differs from
\* the old one in one of the low entropy_bits/32 bit positions and in no
\* other (the entropy is then the same); whatever the new word, the
\* 'actual' checksum reported is the low entropy_bits/32 bits of its index.
C9_SameEntropyOtherChecksum ==
  (Validated /\ base_words # None) =>
    LET cs == results.entropy_bits \div 32
    IN  /\ ActualIsTrailingBits(cs)
        /\ (/\ NewIndex \div Pow2(cs) = OldIndex \div Pow2(cs)
            /\ NewIndex % Pow2(cs) # OldIndex % Pow2(cs))
             => (~results.validations.checksum.valid /\ ~val_ret)

\* C9 witness: the twelfth word of the valid mnemonic "abandon" x 11 +
\* "about" (index 3) replaced by "above" (index 4), the checksum stage has
\* failed.
C9_Witness ==
  /\ Validated
  /\ Canonical
  /\ base_words = Uniform(12, "about")
  /\ results.words = Uniform(12, "above")
  /\ ~results.validations.checksum.valid

\* C10 (as the specification states it): a constructor keeps a wordlist only
\* from a file of exactly 2048 lines, no two of them the same word.
C10_DictionaryIntegrity ==
  /\ gen_wordlist # None =>
       /\ english_txt.exists
       /\ Len(english_txt.lines) = 2048
       /\ Cardinality({gen_wordlist[i] : i \in DOMAIN gen_wordlist}) = 2048
  /\ val_wordlist # None =>
       /\ english_txt.exists
       /\ Len(english_txt.lines) = 2048
       /\ Cardinality({val_wordlist[i] : i \in DOMAIN val_wordlist}) = 2048

\* A string of exactly n characters, all of them digits of the base.
IsDigitString(s, n, base) ==
  /\ Len(s) = n
  /\ \A i \in 1..Len(s) : s[i] \in DOMAIN DigitValues(base)

\* C11 (as the specification states it): entropy_from_hex accepts only a
\* string of exactly 32 characters, all in [0-9A-Fa-f], and
\* entropy_from_binary only a string of exactly 128 characters, all 0 or 1;
\* every other string (wrong length, a prefix such as 0x, spaces, a sign, a
\* separator) raises the format error and no entropy value is returned.
C11_FormatStrictness ==
  /\ op = "entropy_from_hex" =>
       IF IsDigitString(call_args.hex_string, 32, 16)
       THEN raised = "none" /\ call_ret.ret # None
       ELSE raised = "ValueError" /\ call_ret.ret = None
  /\ op = "entropy_from_binary" =>
       IF IsDigitString(call_args.binary_string, 128, 2)
       THEN raised = "none" /\ call_ret.ret # None
       ELSE raised = "ValueError" /\ call_ret.ret = None

\* C12 (as the specification states it): calculate_checksum_bits returns a
\* checksum for the entropy bit lengths 128, 160, 192, 224 and 256 and fails
\* for every other length; validate_mnemonic calls it with one of the five
\* lengths only.
C12_UnsupportedLength ==
  /\ op = "calculate_checksum_bits" =>
       IF call_args.entropy_bit_length \in EntropyLengths
       THEN raised = "none"
       ELSE raised # "none"
  /\ (op = "validate_mnemonic" /\ Len(calls) = 3 /\ raised = "none") =>
       results.entropy_bits \in EntropyLengths

\* C13: a wordlist that failed to load stays missing and blocks every later
\* operation: bits_to_mnemonic and generate_mnemonic return None without
\* computing a checksum or a word, validate_mnemonic (alone or inside
\* get_mnemonic_info) returns False with the report {'error': 'Wordlist not
\* loaded'}, having called no stage and looked up no word.
C13_LoadFailureBlocks ==
  /\ ("generator" \in constructed /\ load_wordlist(english_txt) = None) =>
       gen_wordlist = None
  /\ ("validator" \in constructed /\ load_wordlist(english_txt) = None) =>
       val_wordlist = None /\ wordset = NoSet
  /\ (op = "bits_to_mnemonic" /\ gen_wordlist = None) =>
       /\ raised = "none"
       /\ gen.ret = None
       /\ gen.checksum = None
       /\ gen.combined_bits = None
  /\ (op = "generate_mnemonic" /\ gen_wordlist = None) =>
       /\ raised = "none"
       /\ call_ret.ret = None
  /\ (op \in {"validate_mnemonic", "get_mnemonic_info"} /\ val_wordlist = None) =>
       /\ raised = "none"
       /\ ~val_ret
       /\ results = [error |-> "Wordlist not loaded"]
       /\ calls = <<>>
       /\ chk = None
       /\ op = "get_mnemonic_info" => info = results

\* C13 witness: validate_mnemonic on a well-formed 12-word mnemonic, the
\* validator built from a list file of 2047 lines.
C13_Witness ==
  /\ english_txt = File(ShortLines)
  /\ val_wordlist = None
  /\ op = "validate_mnemonic"
  /\ mnemonic = MnemonicString(Uniform(12, "about"))
  /\ ~val_ret
  /\ results = [error |-> "Wordlist not loaded"]

\* C14: every index 0..2047 packed as an 11-bit group by the decoder's
\* loop (combined = (combined << 11) | index) comes back unchanged from the
\* encoder's extraction ((combined >> shift) & 0x7FF), at each of the twelve
\* word positions, whatever the other eleven groups are; no checksum is
\* computed on the way.
C14_PackingBijection ==
  op = "pack_and_extract" =>
    /\ Len(call_ret.extracted) = 12
    /\ \A i \in 1..12 :
         /\ call_args.word_indices[i] \in 0..2047
         /\ call_ret.extracted[i] = call_args.word_indices[i]
    /\ Len(call_ret.combined_bits) <= 132

\* C14 witness: index 2047 packed at the twelfth position and 678 at the
\* first, both extracted again.
C14_Witness ==
  /\ op = "pack_and_extract"
  /\ call_args.word_indices[1] = 678
  /\ call_args.word_indices[12] = 2047
  /\ call_ret.extracted[1] = 678
  /\ call_ret.extracted[12] = 2047

\* C15 (as the specification states it): with a loaded wordlist, every call
\* of generate_mnemonic returns, either None or a list of exactly 12 words
\* of the wordlist, whatever the entropy_input string and the input_type:
\* no exception leaves the call.
C15_GenerateIsTotal ==
  (op = "generate_mnemonic" /\ gen_wordlist # None) =>
    /\ raised = "none"
    /\ \/ call_ret.ret = None
       \/ /\ Len(call_ret.ret) = 12
          /\ \A i \in 1..12 :
               \E j \in DOMAIN gen_wordlist : gen_wordlist[j] = call_ret.ret[i]

\* The first n bits of the first byte of a digest, as a number.
TopBits(hash_result, n) == hash_result[1] \div Pow2(8 - n)

\* C16: on every 128-bit entropy the generator's calculate_checksum (first
\* hash byte >> 4) and the validator's calculate_checksum_bits(entropy, 128)
\* (bit by bit from the most significant bit) return the same value, the
\* top 4 bits of the hash; and for each of the five lengths L the
\* validator's checksum is the top L/32 bits of the hash, a value in
\* 0 .. 2^(L/32) - 1.
C16_ChecksumsAgree ==
  /\ op = "both_checksums" =>
       /\ raised = "none"
       /\ call_ret.encoder = call_ret.decoder.checksum
       /\ ToSmall(call_ret.encoder) = TopBits(call_ret.decoder.hash_result, 4)
       /\ Len(call_ret.decoder.entropy_bytes) = 16
  /\ (op = "calculate_checksum_bits"
      /\ call_args.entropy_bit_length \in EntropyLengths) =>
       LET n == call_args.entropy_bit_length \div 32
       IN  /\ raised = "none"
           /\ Len(call_ret.checksum) <= n
           /\ ToSmall(call_ret.checksum) \in 0..(Pow2(n) - 1)
           /\ ToSmall(call_ret.checksum) = TopBits(call_ret.hash_result, n)

\* C16 witness: both computations on the all-zero 128-bit entropy, whose
\* hash starts with the byte 0x37: both return 3.
C16_Witness ==
  /\ op = "both_checksums"
  /\ call_args.entropy = <<>>
  /\ call_ret.decoder.hash_result[1] = 55
  /\ ToSmall(call_ret.encoder) = 3
  /\ ToSmall(call_ret.decoder.checksum) = 3

\* validate_mnemonic has just returned on a mnemonic typed a second time,
\* the outcome of the first call kept in call_ret.
Retyped == op = "validate_mnemonic" /\ call_args # None /\ Loaded

\* C17: validate_mnemonic gives a mnemonic typed again in other letter case
\* or with other leading, trailing or repeated whitespace the validity and
\* the stage outcomes it gave the first time; the report lists the words in
\* lower case, and cleaning a cleaned mnemonic changes nothing.
C17_InputNormalisation ==
  /\ Retyped =>
       /\ Split(Clean(mnemonic)) = Split(Clean(call_args.mnemonic))
       /\ raised = call_ret.raised
       /\ val_ret = call_ret.ret
       /\ results.valid = call_ret.results.valid
       /\ results.validations = call_ret.results.validations
       /\ calls = call_ret.calls
       /\ results.words = call_ret.results.words
       /\ results.word_count = call_ret.results.word_count
  /\ (Validated /\ Loaded /\ raised = "none") =>
       /\ \A i \in 1..Len(results.words) :
            results.words[i] \notin DOMAIN UpperForms
       /\ results.words = Split(results.mnemonic)
       /\ results.mnemonic = Clean(mnemonic)
       /\ Clean(results.mnemonic) = results.mnemonic

\* C17 witness: "abandon" x 11 + "about" typed in capitals, with a newline
\* in front, two spaces between the words and after the last: valid as the
\* first time, twelve lower-case words in the report.
C17_Witness ==
  /\ Retyped
  /\ Canonical
  /\ call_args.mnemonic = MnemonicString(Uniform(12, "about"))
  /\ mnemonic = Variant(Uniform(12, "about"), "mixed")
  /\ mnemonic[2] = "Abandon"
  /\ Len(mnemonic) = 37
  /\ val_ret
  /\ call_ret.ret
  /\ results.words = Uniform(12, "about")

====
